---- MODULE Spec2Model ----
(***************************************************************************)
(* A model of AWA_split_dates.py: the split of a source dataset folder     *)
(* into one folder per period (daily / monthly / quarterly / annually),    *)
(* each holding the records from the inception date up to the period end,  *)
(* followed by the replication of the auxiliary folders.                   *)
(*                                                                         *)
(* A datetime is the tuple <<year, month, day>> (every datetime of the     *)
(* program is at midnight).  A date string is the number spelled by its    *)
(* digits: "20240131" and "2024-01-31" are 20240131, "01/31/2024" is       *)
(* 1312024.  A folder name is [date, rest]: its leading YYYY-MM-DD digits  *)
(* and whatever follows them.                                              *)
(***************************************************************************)
EXTENDS Integers, Sequences, FiniteSets, TLC

VARIABLES
    pc,                 \* position of main(): input, create, load, process, copy, done, error
    fs,                 \* the filesystem under DATASETS_DIR: folder name -> folder
    fs0,                \* the filesystem when main() started
    inception_date,     \* get_user_input()'s results
    end_date,
    source_folder,
    frequency,
    current_date,       \* create_folder_structure's locals
    period_end,
    folders_to_process,
    df_ho,              \* the record sets load_csv_files returned
    df_tr,
    next_folder         \* index of the next folder of main's and copy_additional_folders' loops

vars == <<pc, fs, fs0, inception_date, end_date, source_folder, frequency,
          current_date, period_end, folders_to_process, df_ho, df_tr, next_folder>>

(***************************************************************************)
(* Bounds of the model.                                                    *)
(***************************************************************************)
\* Years whose every day is an argument of get_period_end_date in SpecPeriodEnd.
MinYear == 1999
MaxYear == 2101

(***************************************************************************)
(* datetime, timedelta and relativedelta arithmetic.                       *)
(***************************************************************************)
NoDate == <<0, 0, 0>>

Year(dt) == dt[1]
Month(dt) == dt[2]
Day(dt) == dt[3]

\* datetime comparison: dt1 < dt2, dt1 <= dt2
DateLT(a, b) ==
    \/ a[1] < b[1]
    \/ a[1] = b[1] /\ a[2] < b[2]
    \/ a[1] = b[1] /\ a[2] = b[2] /\ a[3] < b[3]

DateLE(a, b) == a = b \/ DateLT(a, b)

is_leap(y) == y % 4 = 0 /\ (y % 100 # 0 \/ y % 400 = 0)

days_in_month(y, m) ==
    IF m = 2 THEN (IF is_leap(y) THEN 29 ELSE 28)
    ELSE IF m \in {4, 6, 9, 11} THEN 30 ELSE 31

days_before_year(y) ==
    (y - 1) * 365 + (y - 1) \div 4 - (y - 1) \div 100 + (y - 1) \div 400

DaysBeforeMonthTable == <<0, 31, 59, 90, 120, 151, 181, 212, 243, 273, 304, 334>>

days_before_month(y, m) ==
    DaysBeforeMonthTable[m] + (IF m > 2 /\ is_leap(y) THEN 1 ELSE 0)

\* datetime.toordinal(): the proleptic Gregorian ordinal, 0001-01-01 is day 1
ymd2ord(dt) == days_before_year(dt[1]) + days_before_month(dt[1], dt[2]) + dt[3]

\* datetime.fromordinal()
ord2ymd(ordinal) ==
    LET n0 == ordinal - 1
        n400 == n0 \div 146097
        r400 == n0 % 146097
        n100 == r400 \div 36524
        r100 == r400 % 36524
        n4 == r100 \div 1461
        r4 == r100 % 1461
        n1 == r4 \div 365
        n == r4 % 365
        year == n400 * 400 + 1 + n100 * 100 + n4 * 4 + n1
    IN  IF n1 = 4 \/ n100 = 4 THEN <<year - 1, 12, 31>>
        ELSE
            LET leapyear == n1 = 3 /\ (n4 # 24 \/ n100 = 3)
                guess == (n + 50) \div 32
                preceding == DaysBeforeMonthTable[guess]
                                + (IF guess > 2 /\ leapyear THEN 1 ELSE 0)
                month == IF preceding > n THEN guess - 1 ELSE guess
                before == DaysBeforeMonthTable[month]
                                + (IF month > 2 /\ leapyear THEN 1 ELSE 0)
            IN  <<year, month, n - before + 1>>

\* dt + timedelta(days = k), dt - timedelta(days = k)
AddDays(dt, k) == ord2ymd(ymd2ord(dt) + k)

\* dt.replace(day = d)
ReplaceDay(dt, d) == <<dt[1], dt[2], d>>

\* dt + relativedelta(months = k): the month moves, the day is cut to the month's length
AddMonths(dt, k) ==
    LET total == dt[2] + k
        y == IF total > 12 THEN dt[1] + 1 ELSE dt[1]
        m == IF total > 12 THEN total - 12 ELSE total
        dim == days_in_month(y, m)
    IN  <<y, m, IF dt[3] < dim THEN dt[3] ELSE dim>>

\* dt + relativedelta(years = k)
AddYears(dt, k) ==
    LET y == dt[1] + k
        dim == days_in_month(y, dt[2])
    IN  <<y, dt[2], IF dt[3] < dim THEN dt[3] ELSE dim>>

\* The day after a date, by the calendar's table of month lengths.
Tomorrow(dt) ==
    IF Day(dt) < days_in_month(Year(dt), Month(dt)) THEN <<Year(dt), Month(dt), Day(dt) + 1>>
    ELSE IF Month(dt) < 12 THEN <<Year(dt), Month(dt) + 1, 1>>
    ELSE <<Year(dt) + 1, 1, 1>>

frequency_options == {"daily", "monthly", "quarterly", "annually"}

(***************************************************************************)
(* get_period_end_date and get_next_period_end.                            *)
(***************************************************************************)
\* The month end computed with three days added to the 28th instead of four.
get_period_end_date_3days(start_date, freq) ==
    IF freq = "monthly"
    THEN LET next_month == AddDays(ReplaceDay(start_date, 28), 3)
         IN  AddDays(next_month, 0 - Day(next_month))
    ELSE IF freq = "daily" THEN start_date
    ELSE IF freq = "annually" THEN <<Year(start_date), 12, 31>>
    ELSE LET quarter == (Month(start_date) - 1) \div 3 + 1
         IN  IF quarter = 1 THEN <<Year(start_date), 3, 31>>
             ELSE IF quarter = 2 THEN <<Year(start_date), 6, 30>>
             ELSE IF quarter = 3 THEN <<Year(start_date), 9, 30>>
             ELSE <<Year(start_date), 12, 31>>

get_period_end_date(start_date, freq) ==
    IF freq = "daily" THEN start_date
    ELSE IF freq = "monthly"
    THEN LET next_month == AddDays(ReplaceDay(start_date, 28), 4)
         IN  AddDays(next_month, 0 - Day(next_month))
    ELSE IF freq = "quarterly"
    THEN LET quarter == (Month(start_date) - 1) \div 3 + 1
         IN  IF quarter = 1 THEN <<Year(start_date), 3, 31>>
             ELSE IF quarter = 2 THEN <<Year(start_date), 6, 30>>
             ELSE IF quarter = 3 THEN <<Year(start_date), 9, 30>>
             ELSE <<Year(start_date), 12, 31>>
    ELSE <<Year(start_date), 12, 31>>

get_next_period_end(date, freq) ==
    IF freq = "daily" THEN AddDays(date, 1)
    ELSE IF freq = "monthly" THEN AddMonths(date, 1)
    ELSE IF freq = "quarterly" THEN AddMonths(date, 3)
    ELSE AddYears(date, 1)

(***************************************************************************)
(* Date strings.                                                           *)
(***************************************************************************)
\* Whether a year, month and day read from a string name a day of the calendar.
IsCalendarDay(y, m, d) == y >= 1 /\ m \in 1..12 /\ d \in 1..days_in_month(y, m)

\* datetime.strptime(s, '%Y%m%d') and datetime.strptime(s, '%Y-%m-%d')
strptime_Ymd(s) == <<s \div 10000, (s \div 100) % 100, s % 100>>

\* validate_date_format: eight digits that strptime accepts
validate_date_format(s) ==
    /\ s \in 0..99999999
    /\ IsCalendarDay(s \div 10000, (s \div 100) % 100, s % 100)

\* dt.strftime('%Y-%m-%d')
strftime_Ymd(dt) == Year(dt) * 10000 + Month(dt) * 100 + Day(dt)

\* pd.to_datetime(s, format = '%m/%d/%Y') of one cell
to_datetime_mdY(s) == <<s % 10000, s \div 1000000, (s \div 10000) % 100>>

ParsesAs_mdY(s) == IsCalendarDay(s % 10000, s \div 1000000, (s \div 10000) % 100)

\* The name of a period folder: the date and nothing after it.
PeriodFolderName(dt) == [date |-> strftime_Ymd(dt), rest |-> ""]

(***************************************************************************)
(* The filesystem under DATASETS_DIR.  A folder holds the subfolders       *)
(* context_data and portfolio (a set of files each) and perf (the files    *)
(* Holdings.csv and Transactions.csv, a sequence of rows each).            *)
(***************************************************************************)
NoDir == [exists |-> FALSE, files |-> {}]
EmptyDir == [exists |-> TRUE, files |-> {}]
NoFile == [exists |-> FALSE, rows |-> <<>>]
NoPerf == [exists |-> FALSE, Holdings |-> NoFile, Transactions |-> NoFile]
EmptyPerf == [exists |-> TRUE, Holdings |-> NoFile, Transactions |-> NoFile]

\* What os.makedirs(folder_path) creates.
EmptyFolder == [context_data |-> NoDir, portfolio |-> NoDir, perf |-> NoPerf]

\* The period folder and its three subfolders, each created unless it exists.
make_period_folder(f, name) ==
    LET old == IF name \in DOMAIN f THEN f[name] ELSE EmptyFolder
        new == [context_data |-> IF old.context_data.exists THEN old.context_data ELSE EmptyDir,
                perf |-> IF old.perf.exists THEN old.perf ELSE EmptyPerf,
                portfolio |-> IF old.portfolio.exists THEN old.portfolio ELSE EmptyDir]
    IN  [n \in DOMAIN f \cup {name} |-> IF n = name THEN new ELSE f[n]]

(***************************************************************************)
(* Record sets.  A row is [kind, date, pad, sec]: kind "header" is a       *)
(* repeated header line, date the digits of the date cell, pad whether     *)
(* blanks surround the date cell, sec the rest of the row.                 *)
(***************************************************************************)
Row(k, dt, p, s) == [kind |-> k, date |-> dt, pad |-> p, sec |-> s]

\* load_csv_files' cleaning: the date column stripped, repeated header lines dropped
clean_frame(rows) ==
    LET stripped == [i \in 1..Len(rows) |->
                        Row(rows[i].kind, rows[i].date, FALSE, rows[i].sec)]
    IN  SelectSeq(stripped, LAMBDA r : r.kind # "header")

\* df[col + ' Datetime'] = pd.to_datetime(df[col], format = '%m/%d/%Y')
AddDatetime(df) ==
    [i \in 1..Len(df) |->
        [kind |-> df[i].kind, date |-> df[i].date, pad |-> df[i].pad, sec |-> df[i].sec,
         Datetime |-> to_datetime_mdY(df[i].date)]]

\* .drop(col + ' Datetime', axis = 1)
DropDatetime(df) ==
    [i \in 1..Len(df) |-> Row(df[i].kind, df[i].date, df[i].pad, df[i].sec)]

\* pd.to_datetime raises on a cell that is no date (padded cells too)
FrameParses(df) == \A i \in 1..Len(df) : ~df[i].pad /\ ParsesAs_mdY(df[i].date)

\* The range filter with an exclusive upper bound.
InRangeExclusive(temp, lower, upper) ==
    SelectSeq(temp, LAMBDA r : DateLE(lower, r.Datetime) /\ DateLT(r.Datetime, upper))

\* The rows of the frame with the Datetime column whose date lies in the range.
InRange(temp, lower, upper) ==
    SelectSeq(temp, LAMBDA r : DateLE(lower, r.Datetime) /\ DateLE(r.Datetime, upper))

deepcopy(df) == df

\* filter_and_save_csv on one frame without the deepcopy: the caller's frame
\* gets the Datetime column.
filter_frame_nocopy(df, inception, folder_date) ==
    LET df_temp == AddDatetime(df)
    IN  [source |-> df_temp,
         filtered |-> DropDatetime(InRange(df_temp, inception, folder_date))]

\* filter_and_save_csv on one frame: the caller's frame after the call, and the
\* filtered frame that is saved.
filter_frame(df, inception, folder_date) ==
    LET df_temp == AddDatetime(deepcopy(df))
    IN  [source |-> df,
         filtered |-> DropDatetime(InRange(df_temp, inception, folder_date))]

\* df.to_csv(path, index = False) of both frames into the folder's perf
save_csv(f, name, ho, tr) ==
    [f EXCEPT ![name].perf.Holdings = [exists |-> TRUE, rows |-> ho],
              ![name].perf.Transactions = [exists |-> TRUE, rows |-> tr]]

(***************************************************************************)
(* copy_additional_folders, one subfolder of one target.                   *)
(***************************************************************************)
\* shutil.rmtree
rmtree(f, name, sub) == [f EXCEPT ![name][sub] = NoDir]

\* The copy that merges into an existing target instead of replacing it.
copy_subfolder_merge(f, source, target, sub) ==
    IF ~f[source][sub].exists THEN [fs |-> f, ok |-> TRUE]
    ELSE [fs |-> [f EXCEPT ![target][sub] =
                    [exists |-> TRUE, files |-> f[target][sub].files \cup f[source][sub].files]],
          ok |-> TRUE]

\* ok is FALSE when shutil.copytree raised: its source is gone.
copy_subfolder(f, source, target, sub) ==
    IF ~f[source][sub].exists THEN [fs |-> f, ok |-> TRUE]
    ELSE LET f1 == IF f[target][sub].exists THEN rmtree(f, target, sub) ELSE f
         IN  IF ~f1[source][sub].exists THEN [fs |-> f1, ok |-> FALSE]
             ELSE [fs |-> [f1 EXCEPT ![target][sub] = f1[source][sub]], ok |-> TRUE]

(***************************************************************************)
(* The runs of main().                                                     *)
(***************************************************************************)
\* What the user types as inception date, and the dates the dataset folders
\* are named after.
InceptionInputs == {20231215, 20240131, 20240229, 20240330}
FolderDates == {20231220, 20240131, 20240229, 20240330}
FolderRests == {"", "-source"}
StaleFolder == [date |-> 20231231, rest |-> ""]

\* Holdings.csv and Transactions.csv of a dataset folder, as read_csv reads them.
SourceHoldings ==
    << Row("date", 3302024, FALSE, "h1"),
       Row("date", 12142023, FALSE, "h2"),
       Row("date", 12152023, TRUE, "h3"),
       Row("header", 0, FALSE, "Security Code"),
       Row("date", 2292024, FALSE, "h4"),
       Row("date", 12202023, FALSE, "h5"),
       Row("date", 4012024, FALSE, "h6") >>

SourceTransactions ==
    << Row("date", 1312024, FALSE, "t1"),
       Row("date", 12312023, TRUE, "t2"),
       Row("date", 3312024, FALSE, "t3"),
       Row("date", 12152023, FALSE, "t4") >>

\* The files an earlier run or a user left in a period folder.
StaleHoldings == << Row("date", 13452023, FALSE, "s1") >>
StaleTransactions == << Row("date", 12312023, FALSE, "s2") >>

DatasetFolder(ctx, pf, ho, tr) ==
    [context_data |-> IF ctx THEN [exists |-> TRUE, files |-> {"context.csv"}] ELSE NoDir,
     portfolio |-> IF pf THEN [exists |-> TRUE, files |-> {"portfolio.csv"}] ELSE NoDir,
     perf |-> [exists |-> TRUE,
               Holdings |-> IF ho THEN [exists |-> TRUE, rows |-> SourceHoldings] ELSE NoFile,
               Transactions |-> IF tr THEN [exists |-> TRUE, rows |-> SourceTransactions]
                                ELSE NoFile]]

StaleFolderContents ==
    [context_data |-> [exists |-> TRUE, files |-> {"old_context.csv"}],
     portfolio |-> [exists |-> TRUE, files |-> {"old_portfolio.csv"}],
     perf |-> [exists |-> TRUE,
               Holdings |-> [exists |-> TRUE, rows |-> StaleHoldings],
               Transactions |-> [exists |-> TRUE, rows |-> StaleTransactions]]]

InitialFileSystems ==
    {[n \in {name} \cup stale |-> IF n = name THEN DatasetFolder(ctx, pf, ho, tr)
                                    ELSE StaleFolderContents] :
        name \in [date : FolderDates, rest : FolderRests],
        ctx \in BOOLEAN, pf \in BOOLEAN, ho \in BOOLEAN, tr \in BOOLEAN,
        stale \in {{}, {StaleFolder}}}

Init ==
    /\ pc = "input"
    /\ fs \in InitialFileSystems
    /\ fs0 = fs
    /\ inception_date = NoDate /\ end_date = NoDate
    /\ source_folder = [date |-> 0, rest |-> ""]
    /\ frequency = ""
    /\ current_date = NoDate /\ period_end = NoDate
    /\ folders_to_process = <<>>
    /\ df_ho = <<>> /\ df_tr = <<>>
    /\ next_folder = 0

\* get_user_input: the answers it accepts (an inception date that validates, a
\* folder of DATASETS_DIR whose name starts with a date, a frequency of the
\* list), and the call of create_folder_structure.  A folder name whose
\* leading digits are no day of the calendar makes strptime raise.
GetUserInput ==
    /\ pc = "input"
    /\ \E inception \in InceptionInputs, folder_name \in DOMAIN fs, freq \in frequency_options :
        /\ validate_date_format(inception)
        /\ inception_date' = strptime_Ymd(inception)
        /\ IF IsCalendarDay(folder_name.date \div 10000, (folder_name.date \div 100) % 100,
                            folder_name.date % 100)
           THEN /\ end_date' = strptime_Ymd(folder_name.date)
                /\ source_folder' = folder_name
                /\ frequency' = freq
                /\ current_date' = strptime_Ymd(inception)
                /\ pc' = "create"
           ELSE /\ pc' = "error"
                /\ UNCHANGED <<end_date, source_folder, frequency, current_date>>
    /\ UNCHANGED <<fs, fs0, period_end, folders_to_process, df_ho, df_tr, next_folder>>

\* create_folder_structure: one pass of the while loop
CreateFolder ==
    /\ pc = "create"
    /\ DateLE(current_date, end_date)
    /\ LET computed == get_period_end_date(current_date, frequency)
           clamped == IF DateLT(end_date, computed) THEN end_date ELSE computed
       IN  /\ period_end' = clamped
           /\ folders_to_process' = Append(folders_to_process, PeriodFolderName(clamped))
           /\ fs' = make_period_folder(fs, PeriodFolderName(clamped))
           /\ IF DateLE(end_date, clamped)
              THEN pc' = "load" /\ UNCHANGED current_date
              ELSE pc' = "create" /\ current_date' = get_next_period_end(clamped, frequency)
    /\ UNCHANGED <<fs0, inception_date, end_date, source_folder, frequency,
                   df_ho, df_tr, next_folder>>

\* create_folder_structure: the while condition fails
CreateReturn ==
    /\ pc = "create"
    /\ ~DateLE(current_date, end_date)
    /\ pc' = "load"
    /\ UNCHANGED <<fs, fs0, inception_date, end_date, source_folder, frequency,
                   current_date, period_end, folders_to_process, df_ho, df_tr, next_folder>>

\* load_csv_files
LoadCsvFiles ==
    /\ pc = "load"
    /\ LET perf == fs[source_folder].perf
       IN  IF perf.exists /\ perf.Holdings.exists /\ perf.Transactions.exists
           THEN /\ df_ho' = clean_frame(perf.Holdings.rows)
                /\ df_tr' = clean_frame(perf.Transactions.rows)
                /\ next_folder' = 1
                /\ pc' = "process"
           ELSE /\ pc' = "error"
                /\ UNCHANGED <<df_ho, df_tr, next_folder>>
    /\ UNCHANGED <<fs, fs0, inception_date, end_date, source_folder, frequency,
                   current_date, period_end, folders_to_process>>

\* main's loop over folders_to_process: filter_and_save_csv for one folder
FilterAndSaveCsv ==
    /\ pc = "process"
    /\ next_folder <= Len(folders_to_process)
    /\ LET folder_name == folders_to_process[next_folder]
           folder_date == strptime_Ymd(folder_name.date)
           ho == filter_frame(df_ho, inception_date, folder_date)
           tr == filter_frame(df_tr, inception_date, folder_date)
       IN  IF FrameParses(df_ho) /\ FrameParses(df_tr)
           THEN /\ df_ho' = ho.source
                /\ df_tr' = tr.source
                /\ fs' = save_csv(fs, folder_name, ho.filtered, tr.filtered)
                /\ next_folder' = next_folder + 1
                /\ pc' = "process"
           ELSE /\ pc' = "error"
                /\ UNCHANGED <<df_ho, df_tr, fs, next_folder>>
    /\ UNCHANGED <<fs0, inception_date, end_date, source_folder, frequency,
                   current_date, period_end, folders_to_process>>

\* main's loop is over: copy_additional_folders is called
ProcessDone ==
    /\ pc = "process"
    /\ next_folder > Len(folders_to_process)
    /\ next_folder' = 1
    /\ pc' = "copy"
    /\ UNCHANGED <<fs, fs0, inception_date, end_date, source_folder, frequency,
                   current_date, period_end, folders_to_process, df_ho, df_tr>>

\* copy_additional_folders: one target folder
CopyAdditionalFolders ==
    /\ pc = "copy"
    /\ next_folder <= Len(folders_to_process)
    /\ LET target == folders_to_process[next_folder]
           context == copy_subfolder(fs, source_folder, target, "context_data")
           portfolio == copy_subfolder(context.fs, source_folder, target, "portfolio")
       IN  IF ~context.ok THEN fs' = context.fs /\ pc' = "error" /\ UNCHANGED next_folder
           ELSE IF ~portfolio.ok
                THEN fs' = portfolio.fs /\ pc' = "error" /\ UNCHANGED next_folder
                ELSE fs' = portfolio.fs /\ pc' = "copy" /\ next_folder' = next_folder + 1
    /\ UNCHANGED <<fs0, inception_date, end_date, source_folder, frequency,
                   current_date, period_end, folders_to_process, df_ho, df_tr>>

\* copy_additional_folders returns and main prints "Run is done!"
RunIsDone ==
    /\ pc = "copy"
    /\ next_folder > Len(folders_to_process)
    /\ pc' = "done"
    /\ UNCHANGED <<fs, fs0, inception_date, end_date, source_folder, frequency,
                   current_date, period_end, folders_to_process, df_ho, df_tr, next_folder>>

Next ==
    \/ GetUserInput
    \/ CreateFolder
    \/ CreateReturn
    \/ LoadCsvFiles
    \/ FilterAndSaveCsv
    \/ ProcessDone
    \/ CopyAdditionalFolders
    \/ RunIsDone

Spec == Init /\ [][Next]_vars

(***************************************************************************)
(* Properties of the runs of main().                                       *)
(***************************************************************************)
\* create_folder_structure has returned.
SequenceComplete == pc \in {"load", "process", "copy", "done", "error"}

\* The period-end date a folder of folders_to_process is named after.
PeriodEndOf(i) == strptime_Ymd(folders_to_process[i].date)

Clamp(dt, end) == IF DateLT(end, dt) THEN end ELSE dt

\* C1: for inception <= end the list of period ends is strictly increasing,
\* starts with get_period_end_date(inception) clamped to end, never exceeds
\* end, and ends with end exactly.
C1_SequenceEndsAtEndDate ==
    (SequenceComplete /\ DateLE(inception_date, end_date)) =>
        /\ Len(folders_to_process) >= 1
        /\ \A i \in 1..(Len(folders_to_process) - 1) : DateLT(PeriodEndOf(i), PeriodEndOf(i + 1))
        /\ \A i \in 1..Len(folders_to_process) : DateLE(PeriodEndOf(i), end_date)
        /\ PeriodEndOf(1) = Clamp(get_period_end_date(inception_date, frequency), end_date)
        /\ PeriodEndOf(Len(folders_to_process)) = end_date

\* The sequence of period ends in which each boundary after the first is
\* computed from the day after the previous boundary.
RECURSIVE ContiguousSequence(_, _, _)
ContiguousSequence(anchor, end, freq) ==
    IF DateLT(end, anchor) THEN <<>>
    ELSE LET boundary == Clamp(get_period_end_date(anchor, freq), end)
         IN  IF DateLE(end, boundary) THEN <<boundary>>
             ELSE <<boundary>> \o ContiguousSequence(Tomorrow(boundary), end, freq)

\* C3: for inception <= end the period ends the code produces are those of
\* the contiguous sequence: no calendar unit is skipped or repeated.
C3_SequenceIsContiguous ==
    (SequenceComplete /\ DateLE(inception_date, end_date)) =>
        [i \in 1..Len(folders_to_process) |-> PeriodEndOf(i)]
            = ContiguousSequence(inception_date, end_date, frequency)

\* C9: the loop of create_folder_structure stops in the pass whose clamped
\* period end is the end date, and the end date is emitted exactly once.
C9_LoopStopsAtEndDateEmittedOnce ==
    (SequenceComplete /\ DateLE(inception_date, end_date)) =>
        /\ period_end = end_date
        /\ Cardinality({i \in 1..Len(folders_to_process) : PeriodEndOf(i) = end_date}) = 1

\* C5: a run whose end date is earlier than its inception date does not end
\* as a successful run ("Run is done!").
C5_InvertedRangeIsAnError ==
    pc = "done" => ~DateLT(end_date, inception_date)

\* The source folder's perf lacked Holdings.csv or Transactions.csv when the run started.
SourceCsvMissing ==
    /\ source_folder \in DOMAIN fs0
    /\ ~(/\ fs0[source_folder].perf.exists
         /\ fs0[source_folder].perf.Holdings.exists
         /\ fs0[source_folder].perf.Transactions.exists)

\* C6: when the run aborts because a source CSV file is missing, no period
\* folder has been created and nothing has been written: the filesystem is
\* as it was when the run started.
C6_MissingCsvLeavesFilesystemUnchanged ==
    (pc = "error" /\ SourceCsvMissing) => fs = fs0

\* The folders whose perf files filter_and_save_csv has written.
Written ==
    IF pc = "process" THEN 1..(next_folder - 1)
    ELSE IF pc \in {"copy", "done"} THEN 1..Len(folders_to_process)
    ELSE {}

RowsOf(rows) == {rows[k] : k \in 1..Len(rows)}

PositionIn(rows, r) == CHOOSE i \in 1..Len(rows) : rows[i] = r

\* out holds exactly the rows of source dated within [lower, upper], in source's order.
IsRangeOf(out, source, lower, upper) ==
    /\ RowsOf(out) \subseteq RowsOf(source)
    /\ \A i \in 1..Len(source) :
            (source[i] \in RowsOf(out)) <=>
                (/\ DateLE(lower, to_datetime_mdY(source[i].date))
                 /\ DateLE(to_datetime_mdY(source[i].date), upper))
    /\ \A k \in 1..(Len(out) - 1) : PositionIn(source, out[k]) < PositionIn(source, out[k + 1])

\* C4: the Holdings.csv and Transactions.csv written for a period folder p hold
\* exactly the source rows with inception <= date <= p, in their original
\* order; the output of an earlier period is contained in that of a later one.
C4_OutputIsInclusiveRangeFromInception ==
    /\ \A i \in Written :
        /\ IsRangeOf(fs[folders_to_process[i]].perf.Holdings.rows, df_ho,
                     inception_date, PeriodEndOf(i))
        /\ IsRangeOf(fs[folders_to_process[i]].perf.Transactions.rows, df_tr,
                     inception_date, PeriodEndOf(i))
    /\ \A i, j \in Written :
        DateLT(PeriodEndOf(i), PeriodEndOf(j)) =>
            /\ RowsOf(fs[folders_to_process[i]].perf.Holdings.rows)
                  \subseteq RowsOf(fs[folders_to_process[j]].perf.Holdings.rows)
            /\ RowsOf(fs[folders_to_process[i]].perf.Transactions.rows)
                  \subseteq RowsOf(fs[folders_to_process[j]].perf.Transactions.rows)

\* Two periods are written, the earlier output is a non-empty proper part of the
\* later one, and source rows before the inception date and after the period
\* end are left out.
C4_Witness ==
    /\ pc = "copy"
    /\ Len(folders_to_process) >= 2
    /\ LET first == fs[folders_to_process[1]].perf.Holdings.rows
           second == fs[folders_to_process[2]].perf.Holdings.rows
       IN  /\ first # <<>>
           /\ RowsOf(first) # RowsOf(second)
           /\ \E r \in RowsOf(df_ho) : DateLT(to_datetime_mdY(r.date), inception_date)
           /\ \E r \in RowsOf(df_ho) : DateLT(PeriodEndOf(2), to_datetime_mdY(r.date))
           /\ \E r \in RowsOf(second) : to_datetime_mdY(r.date) = PeriodEndOf(2)

\* C8: once loaded, the record sets in memory stay what load_csv_files made of
\* the source files, whatever periods have been filtered, and every period's
\* written output is the filter of those record sets alone.
C8_FilteringLeavesRecordSetsUnchanged ==
    pc \in {"process", "copy", "done"} =>
        LET loaded_ho == clean_frame(fs0[source_folder].perf.Holdings.rows)
            loaded_tr == clean_frame(fs0[source_folder].perf.Transactions.rows)
        IN  /\ df_ho = loaded_ho
            /\ df_tr = loaded_tr
            /\ \A i \in Written :
                /\ fs[folders_to_process[i]].perf.Holdings.rows
                     = filter_frame(loaded_ho, inception_date, PeriodEndOf(i)).filtered
                /\ fs[folders_to_process[i]].perf.Transactions.rows
                     = filter_frame(loaded_tr, inception_date, PeriodEndOf(i)).filtered

\* Three periods have been filtered from record sets that hold rows.
C8_Witness ==
    /\ pc = "process"
    /\ next_folder = 4
    /\ Len(df_ho) >= 2 /\ Len(df_tr) >= 2
    /\ fs[folders_to_process[3]].perf.Holdings.rows # <<>>

AuxiliaryFolders == {"context_data", "portfolio"}

\* C7 as stated: after copy_additional_folders every period folder's auxiliary
\* subfolders hold exactly the files of the source folder's (none when the
\* source has no such folder), whatever they held before.
C7_AuxiliaryFoldersAlwaysMatchSource ==
    pc = "done" =>
        \A i \in 1..Len(folders_to_process), sub \in AuxiliaryFolders :
            fs[folders_to_process[i]][sub].files
                = (IF fs[source_folder][sub].exists THEN fs[source_folder][sub].files ELSE {})

\* C7 amended: after copy_additional_folders, an auxiliary subfolder the source
\* folder has is the same in every period folder, with nothing left of what
\* was there before, and the source's is as it was when the run started; an
\* auxiliary subfolder the source folder lacks is left in every period folder
\* as it was (with the files it had before the run, or empty).
C7_AuxiliaryFoldersMatchExistingSource ==
    pc = "done" =>
        \A i \in 1..Len(folders_to_process), sub \in AuxiliaryFolders :
            LET p == folders_to_process[i]
            IN  IF fs[source_folder][sub].exists
                THEN /\ fs[p][sub] = fs[source_folder][sub]
                     /\ fs[source_folder][sub] = fs0[source_folder][sub]
                ELSE fs[p][sub] = (IF p \in DOMAIN fs0 /\ fs0[p][sub].exists
                                   THEN fs0[p][sub] ELSE EmptyDir)

\* A period folder that held other auxiliary files before the run holds the
\* source's after it.
C7_Witness ==
    /\ pc = "done"
    /\ \E i \in 1..Len(folders_to_process) :
        LET p == folders_to_process[i]
        IN  /\ p \in DOMAIN fs0
            /\ fs0[p].context_data.files = {"old_context.csv"}
            /\ fs[source_folder].context_data.exists
            /\ fs[p].context_data.files = {"context.csv"}

\* C10: once filter_and_save_csv and copy_additional_folders have run, the
\* auxiliary folders and the CSV files the source folder had are still there
\* with their contents.
C10_SourceFolderIsNotAltered ==
    pc \in {"copy", "done", "error"} =>
        /\ \A sub \in AuxiliaryFolders :
            fs0[source_folder][sub].exists => fs[source_folder][sub] = fs0[source_folder][sub]
        /\ fs0[source_folder].perf.Holdings.exists =>
                fs[source_folder].perf.Holdings = fs0[source_folder].perf.Holdings
        /\ fs0[source_folder].perf.Transactions.exists =>
                fs[source_folder].perf.Transactions = fs0[source_folder].perf.Transactions

(***************************************************************************)
(* SpecPeriodEnd: get_period_end_date applied to every day of the years    *)
(* MinYear .. MaxYear under every frequency.                               *)
(***************************************************************************)
AllDates ==
    {<<y, m, d>> : y \in MinYear..MaxYear, m \in 1..12, d \in 1..31}
        \ {dt \in (MinYear..MaxYear) \X (1..12) \X (1..31) :
                dt[3] > days_in_month(dt[1], dt[2])}

InitPeriodEnd ==
    /\ pc = "call"
    /\ current_date \in AllDates
    /\ frequency \in frequency_options
    /\ period_end = NoDate
    /\ fs = <<>> /\ fs0 = <<>>
    /\ inception_date = NoDate /\ end_date = NoDate
    /\ source_folder = [date |-> 0, rest |-> ""]
    /\ folders_to_process = <<>>
    /\ df_ho = <<>> /\ df_tr = <<>>
    /\ next_folder = 0

CallPeriodEnd ==
    /\ pc = "call"
    /\ period_end' = get_period_end_date(current_date, frequency)
    /\ pc' = "return"
    /\ UNCHANGED <<fs, fs0, inception_date, end_date, source_folder, frequency,
                   current_date, folders_to_process, df_ho, df_tr, next_folder>>

NextPeriodEnd == CallPeriodEnd

SpecPeriodEnd == InitPeriodEnd /\ [][NextPeriodEnd]_vars

\* The calendar unit of a date under a frequency.
SameUnit(a, b, freq) ==
    IF freq = "daily" THEN a = b
    ELSE IF freq = "monthly" THEN Year(a) = Year(b) /\ Month(a) = Month(b)
    ELSE IF freq = "quarterly"
    THEN Year(a) = Year(b) /\ (Month(a) - 1) \div 3 = (Month(b) - 1) \div 3
    ELSE Year(a) = Year(b)

\* C2: get_period_end_date(d, frequency) is on or after d, lies in d's calendar
\* unit (day, month, quarter, year) and is the last day of that unit: the day
\* after it belongs to another unit.
C2_PeriodEndIsLastDayOfUnit ==
    pc = "return" =>
        /\ DateLE(current_date, period_end)
        /\ Day(period_end) \in 1..days_in_month(Year(period_end), Month(period_end))
        /\ SameUnit(current_date, period_end, frequency)
        /\ ~SameUnit(current_date, Tomorrow(period_end), frequency)

\* The month end of February was computed in a century year that is no leap year.
C2_Witness ==
    /\ pc = "return"
    /\ frequency = "monthly"
    /\ current_date = <<2100, 2, 10>>
    /\ period_end = <<2100, 2, 28>>

====
